---------------------------- MODULE Spec2Model ----------------------------
(***************************************************************************)
(* stabilizer-stream: the acquisition thread of src/bin/main.rs (command   *)
(* poll, lazy bank instantiation, Source::get, frame decode and feed,      *)
(* publication through sync_channel(1)) together with the GUI thread that  *)
(* owns the other ends of the two channels (FLS::update, FLS::on_exit,     *)
(* receiver.join).                                                         *)
(*                                                                         *)
(* Granularity: one action per access to something the two threads share   *)
(* or to the outside world.  An iteration of the loop is                   *)
(*     Poll  ->  get (one of the Get actions)  ->  Process  [-> Publish]   *)
(* and the program counter pc of the acquisition thread says which of      *)
(* these comes next.                                                       *)
(***************************************************************************)
EXTENDS Naturals, Sequences, FiniteSets

(***************************************************************************)
(* Program constants.                                                      *)
(***************************************************************************)
\* main.rs:78  `if i > 100`
Threshold == 100
\* main.rs:40  `mpsc::sync_channel(1)`
Capacity == 1
\* main.rs:57  `(0..4).map(..)`, the size of the bank
NumChannels == 4
\* source.rs:47  `set_read_timeout(Some(Duration::from_millis(1000)))`
ReadTimeoutMs == 1000
\* per-channel traces of a decoded frame (frame.data.traces())
FrameTraces == 4

(***************************************************************************)
(* Bounds of the model.                                                    *)
(***************************************************************************)
\* publication attempts after which the environment delivers no further
\* decodable frame (all later buffers fail to decode)
MaxPub == 2
\* commands that may wait in the (unbounded) command channel
MaxCmdQueue == 2
\* frames of the longest replay file
MaxFileFrames == 2
\* bytes of one frame (opts.frame_size, 1400 by default), scaled down
FrameSize == 2
\* distinct sequence identities carried by datagrams
MaxSeq == 1

VARIABLES
    opts,        \* configuration: [file, len, frame_size] (SourceOpts), and the
                 \* environment's budget: publication attempts after which no
                 \* further buffer decodes
    pc,          \* acquisition thread: "poll" | "read" | "decode" | "publish" | "done"
    cmdq,        \* command channel (cmd_send -> cmd_recv): messages in flight
    trace_chan,  \* result channel (trace_send -> trace_recv): messages in flight
    dec,         \* the accumulator bank: per accumulator, frames processed
    i,           \* frame counter
    buf,         \* what the last successful get put into buf: [id, len, ok]
    got,         \* what source.get returned in this iteration: "none" (not yet) |
                 \* "ok" | "timeout" | "io"
    pos,         \* file cursor (file mode)
    idle,        \* network mode: TRUE once no further datagram will arrive
    loss,        \* loss tracker: [last, analyzed]
    result,      \* the thread's return value: "none" | "ok" | "timeout" | "io"
    gui,         \* GUI thread: "running" | "exited" | "panicked"
    current,     \* FLS.current: <<>> (None) or <<snapshot>>
    joined,      \* what receiver.join() handed to main: "none" or a result
    nrecv,       \* history: snapshots the GUI has received
    npub,        \* history: publication attempts so far (publication index)
    pubs,        \* history: publication attempts since the bank was instantiated
                 \* (since the last Reset was processed, or since the start)
    afterReset   \* history: a Reset was processed and no frame was fed since

vars == <<opts, pc, cmdq, trace_chan, dec, i, buf, got, pos, idle, loss, result,
          gui, current, joined, nrecv, npub, pubs, afterReset>>

(***************************************************************************)
(* Configuration and initial state.                                        *)
(***************************************************************************)
\* the files the model replays: empty, shorter than a frame, k whole frames
FileLens == {0, 1} \cup {k * FrameSize : k \in 1..MaxFileFrames}

Configs ==
    {[file |-> FALSE, len |-> 0, frame_size |-> FrameSize, budget |-> MaxPub]}
    \cup {[file |-> TRUE, len |-> l, frame_size |-> FrameSize, budget |-> MaxPub] :
             l \in FileLens}

\* mutant of ReadTimeout: the socket is left blocking
ReadTimeout_None == [some |-> FALSE, ms |-> 0]

\* source.rs:45-48: the socket gets a read timeout
ReadTimeout == [some |-> TRUE, ms |-> ReadTimeoutMs]

\* main.rs:57-62: a fresh accumulator has processed nothing
NewCascade == 0

\* main.rs:57-62: the bank as (re)instantiated
FreshBank == [k \in 1..NumChannels |-> NewCascade]

\* main.rs:39-48: channels, source, loss tracker, empty bank, counter
Start ==
    /\ pc = "poll"
    /\ cmdq = <<>>
    /\ trace_chan = <<>>
    /\ dec = <<>>
    /\ i = 0
    /\ buf = [id |-> 0, len |-> 0, ok |-> FALSE]
    /\ got = "none"
    /\ pos = 0
    /\ idle = FALSE
    /\ loss = [last |-> <<>>, analyzed |-> 0]
    /\ result = "none"
    /\ gui = "running"
    /\ current = <<>>
    /\ joined = "none"
    /\ nrecv = 0
    /\ npub = 0
    /\ pubs = 0
    /\ afterReset = FALSE

Init == opts \in Configs /\ Start

(***************************************************************************)
(* The two channels.                                                       *)
(***************************************************************************)
\* the GUI owns cmd_send and trace_recv until FLS is dropped
GuiAlive == gui = "running"

\* the thread owns cmd_recv and trace_send until its closure returns
ThreadAlive == pc # "done"

\* mutant of TryRecvCmd: an Exit anywhere in the queue is taken first
TryRecvCmd_ExitFirst ==
    IF \E k \in 1..Len(cmdq) : cmdq[k] = "Exit" THEN "Exit"
    ELSE IF cmdq # <<>> THEN Head(cmdq)
    ELSE IF ~GuiAlive THEN "Disconnected"
    ELSE "Empty"

\* cmd_recv.try_recv(): a queued message first, Disconnected only when
\* the queue is empty and the sender is gone
TryRecvCmd ==
    IF cmdq # <<>> THEN Head(cmdq)
    ELSE IF ~GuiAlive THEN "Disconnected"
    ELSE "Empty"

\* trace_send.try_send(m): the outcome
TrySendResult ==
    IF ~GuiAlive THEN "Disconnected"
    ELSE IF Len(trace_chan) >= Capacity THEN "Full"
    ELSE "Ok"

\* mutant of TrySend: a full slot is overwritten by the new message
TrySend_Overwrite(m) ==
    IF ~GuiAlive THEN trace_chan
    ELSE IF Len(trace_chan) >= Capacity THEN <<m>>
    ELSE Append(trace_chan, m)

\* trace_send.try_send(m): the channel afterwards
TrySend(m) ==
    IF TrySendResult = "Ok" THEN Append(trace_chan, m) ELSE trace_chan

\* mutant of SendReturns: send() in place of try_send() waits for room
SendReturns_Blocking == Len(trace_chan) < Capacity \/ ~GuiAlive

\* try_send returns at once, whatever the channel holds
SendReturns == TRUE

(***************************************************************************)
(* External components, as the loop uses them.                             *)
(***************************************************************************)
\* Frame::from_bytes(&buf[..len]): Ok(frame) or Err, decided by the bytes
FromBytes(b) == IF b.ok THEN <<[seq |-> b.id, traces |-> FrameTraces]>> ELSE <<>>

\* loss.update(&frame)
LossUpdate(l, frame) == [l EXCEPT !.last = <<frame.seq>>]

\* loss.analyze()
LossAnalyze(l) == [l EXCEPT !.analyzed = @ + 1]

\* dec.process(x) for one accumulator
Process(acc) == acc + 1

\* dec.psd(min_avg), dec.frequencies(..): the trace of one accumulator
Trace(acc) == [frames |-> acc]

(***************************************************************************)
(* The acquisition loop, main.rs:49-111.                                   *)
(***************************************************************************)
\* mutant of Breaks: a disconnected command channel is taken for an empty one
Breaks_ExitOnly(r) == r = "Exit"

\* main.rs:51: the poll results that break the loop
Breaks(r) == r \in {"Exit", "Disconnected"}

\* mutant of AfterCmd: Reset is received and the bank is kept
AfterCmd_Keep(r, d) == d

\* main.rs:52: what the poll result does to the bank
AfterCmd(r, d) == IF r = "Reset" THEN <<>> ELSE d

\* mutant of LazyInit: a cleared bank is left empty
LazyInit_Never(d, c) == [dec |-> d, i |-> c]

\* mutant of LazyInit: the bank is re-instantiated, the counter is kept
LazyInit_KeepCounter(d, c) ==
    IF d = <<>> THEN [dec |-> [k \in 1..NumChannels |-> 0], i |-> c]
    ELSE [dec |-> d, i |-> c]

\* main.rs:56-64: lazy (re)instantiation, [dec, i]
LazyInit(d, c) ==
    IF d = <<>> THEN [dec |-> FreshBank, i |-> 0] ELSE [dec |-> d, i |-> c]

\* main.rs:50-64 and, on break, 109-111
Poll ==
    /\ pc = "poll"
    /\ LET r == TryRecvCmd
           d == AfterCmd(r, dec)
           n == LazyInit(d, i)
       IN  /\ cmdq' = IF cmdq # <<>> THEN Tail(cmdq) ELSE cmdq
           /\ IF Breaks(r)
              THEN /\ pc' = "done"
                   /\ loss' = LossAnalyze(loss)
                   /\ result' = "ok"
                   /\ UNCHANGED <<dec, i, got, pubs, afterReset>>
              ELSE /\ pc' = "read"
                   /\ got' = "none"
                   /\ dec' = n.dec
                   /\ i' = n.i
                   /\ pubs' = IF r = "Reset" \/ d = <<>> THEN 0 ELSE pubs
                   /\ afterReset' = (afterReset \/ r = "Reset")
                   /\ UNCHANGED <<loss, result>>
    /\ UNCHANGED <<opts, trace_chan, buf, pos, idle, gui, current, nrecv, joined, npub>>

\* mutant of Propagate: the error is logged and the loop goes on
Propagate_Swallow(e) ==
    /\ got' = e
    /\ pc' = "poll"
    /\ UNCHANGED <<opts, cmdq, trace_chan, dec, i, buf, pos, idle, loss, result,
                   gui, current, nrecv, joined, npub, pubs, afterReset>>

\* `?` on an Err of source.get: the closure returns it, skipping 67-111
Propagate(e) ==
    /\ got' = e
    /\ result' = e
    /\ pc' = "done"
    /\ UNCHANGED <<opts, cmdq, trace_chan, dec, i, buf, pos, idle, loss, gui,
                   current, nrecv, joined, npub, pubs, afterReset>>

\* mutant of ReadExactOk: the last frame of the file counts as end-of-input
ReadExactOk_OffByOne(p) == opts.len - p > opts.frame_size

\* source.rs:55: read_exact succeeds when n bytes are left from the cursor
ReadExactOk(p) == opts.len - p >= opts.frame_size

\* source.rs:60: SeekFrom::Start(0)
SeekStart == 0

\* source.rs:55-57: read_exact fills buf[..n] and get returns n; whether
\* the bytes read will decode (ok) is the environment's choice
GetFileOk ==
    /\ pc = "read" /\ opts.file
    /\ ReadExactOk(pos)
    /\ \E ok \in BOOLEAN :
          /\ ok => npub < opts.budget
          /\ buf' = [id |-> pos, len |-> opts.frame_size, ok |-> ok]
    /\ pos' = pos + opts.frame_size
    /\ got' = "ok"
    /\ pc' = "decode"
    /\ UNCHANGED <<opts, cmdq, trace_chan, dec, i, idle, loss, result, gui,
                   current, nrecv, joined, npub, pubs, afterReset>>

\* source.rs:59-61: UnexpectedEof, seek to the start and go round again
GetFileEof ==
    /\ pc = "read" /\ opts.file
    /\ ~ReadExactOk(pos)
    /\ pos' = SeekStart
    /\ UNCHANGED <<opts, pc, cmdq, trace_chan, dec, i, buf, got, idle, loss,
                   result, gui, current, nrecv, joined, npub, pubs, afterReset>>

\* source.rs:60, 62: any other error of read_exact or seek
GetFileErr ==
    /\ pc = "read" /\ opts.file
    /\ Propagate("io")

\* source.rs:65: recv returns a datagram
GetUdpOk ==
    /\ pc = "read" /\ ~opts.file
    /\ ~idle
    /\ \E s \in 0..(MaxSeq - 1), ok \in BOOLEAN :
          /\ ok => npub < opts.budget
          /\ buf' = [id |-> s, len |-> opts.frame_size, ok |-> ok]
    /\ got' = "ok"
    /\ pc' = "decode"
    /\ UNCHANGED <<opts, cmdq, trace_chan, dec, i, pos, idle, loss, result, gui,
                   current, nrecv, joined, npub, pubs, afterReset>>

\* source.rs:65: recv gives up after the read timeout (WouldBlock/TimedOut)
GetUdpTimeout ==
    /\ pc = "read" /\ ~opts.file
    /\ ReadTimeout.some
    /\ Propagate("timeout")

\* source.rs:65: any other error of recv
GetUdpErr ==
    /\ pc = "read" /\ ~opts.file
    /\ Propagate("io")

\* the network falls silent: no further datagram reaches the socket
NetIdle ==
    /\ ~opts.file /\ ~idle
    /\ idle' = TRUE
    /\ UNCHANGED <<opts, pc, cmdq, trace_chan, dec, i, buf, got, pos, loss,
                   result, gui, current, nrecv, joined, npub, pubs, afterReset>>

\* mutant of Feed: only the first accumulator gets the frame
Feed_FirstOnly(d, frame) ==
    [k \in 1..Len(d) |-> IF k = 1 THEN Process(d[k]) ELSE d[k]]

\* main.rs:70-73: zip feeds as many accumulators as the frame has traces
Feed(d, frame) ==
    [k \in 1..Len(d) |-> IF k <= frame.traces THEN Process(d[k]) ELSE d[k]]

\* mutant of ShouldPublish: the threshold is reached, not exceeded
ShouldPublish_AtThreshold(c) == c >= Threshold

\* main.rs:78: the publication test
ShouldPublish(c) == c > Threshold

\* mutant of Counted: the counter advances after the match, on Err too
Counted_Always(c, f) == c + 1

\* main.rs:74: the counter after a buffer, f the decoder's result
Counted(c, f) == IF f # <<>> THEN c + 1 ELSE c

\* main.rs:67-78: decode, feed, count, test the threshold
Decode ==
    /\ pc = "decode"
    /\ LET f == FromBytes(buf)
       IN  IF f # <<>>
           THEN /\ loss' = LossUpdate(loss, f[1])
                /\ dec' = Feed(dec, f[1])
                /\ afterReset' = FALSE
           ELSE UNCHANGED <<loss, dec, afterReset>>
    /\ i' = Counted(i, FromBytes(buf))
    /\ pc' = IF ShouldPublish(i') THEN "publish" ELSE "poll"
    /\ UNCHANGED <<opts, cmdq, trace_chan, buf, got, pos, idle, result, gui,
                   current, nrecv, joined, npub, pubs>>

\* main.rs:80-96: the snapshot, one trace per accumulator
Snapshot(d, n) == [idx |-> n, traces |-> [k \in 1..Len(d) |-> Trace(d[k])]]

\* mutant of Publish: the publication starts the bank afresh as well
Publish_ClearsBank ==
    /\ pc = "publish"
    /\ SendReturns
    /\ i' = 0
    /\ dec' = FreshBank
    /\ trace_chan' = TrySend(Snapshot(dec, npub + 1))
    /\ npub' = npub + 1
    /\ pubs' = pubs + 1
    /\ pc' = "poll"
    /\ UNCHANGED <<opts, cmdq, buf, got, pos, idle, loss, result, gui,
                   current, nrecv, joined, afterReset>>

\* main.rs:79-106: reset the counter, build the snapshot, try_send it
Publish ==
    /\ pc = "publish"
    /\ SendReturns
    /\ i' = 0
    /\ trace_chan' = TrySend(Snapshot(dec, npub + 1))
    /\ npub' = npub + 1
    /\ pubs' = pubs + 1
    /\ pc' = "poll"
    /\ UNCHANGED <<opts, cmdq, dec, buf, got, pos, idle, loss, result, gui,
                   current, nrecv, joined, afterReset>>

(***************************************************************************)
(* The GUI thread, main.rs:114-205.                                        *)
(***************************************************************************)
\* trace_recv.try_recv()
TryRecvTrace ==
    IF trace_chan # <<>> THEN "Ok"
    ELSE IF ~ThreadAlive THEN "Disconnected"
    ELSE "Empty"

\* mutant of Drained: the message is looked at and left in the channel
Drained_Peek(ch) == ch

\* main.rs:159: try_recv takes the message out of the channel
Drained(ch) == Tail(ch)

\* main.rs:157-205: one frame of the GUI; clicked = the Reset button
update(clicked) ==
    /\ gui = "running"
    /\ LET r == TryRecvTrace
       IN  IF r = "Disconnected"
           THEN \* main.rs:166 panic!("lost data processing thread")
                /\ gui' = "panicked"
                /\ UNCHANGED <<trace_chan, current, nrecv, cmdq>>
           ELSE /\ trace_chan' = IF r = "Ok" THEN Drained(trace_chan) ELSE trace_chan
                /\ current' = IF r = "Ok" THEN <<Head(trace_chan)>> ELSE current
                /\ nrecv' = IF r = "Ok" THEN nrecv + 1 ELSE nrecv
                /\ IF clicked
                   THEN IF ThreadAlive
                        THEN /\ Len(cmdq) < MaxCmdQueue
                             /\ cmdq' = Append(cmdq, "Reset")
                             /\ gui' = gui
                        ELSE \* main.rs:191 send(..).unwrap() on a closed channel
                             /\ gui' = "panicked"
                             /\ cmdq' = cmdq
                   ELSE UNCHANGED <<gui, cmdq>>
    /\ UNCHANGED <<opts, pc, dec, i, buf, got, pos, idle, loss, result, joined,
                   npub, pubs, afterReset>>

\* main.rs:153-155, then FLS is dropped as run_native returns
on_exit ==
    /\ gui = "running"
    /\ cmdq' = IF ThreadAlive THEN Append(cmdq, "Exit") ELSE cmdq
    /\ trace_chan' = <<>>
    /\ gui' = "exited"
    /\ UNCHANGED <<opts, pc, dec, i, buf, got, pos, idle, loss, result, current, nrecv,
                   joined, npub, pubs, afterReset>>

\* main.rs:118-123: run_native fails and unwrap panics; FLS is dropped
\* without on_exit
run_native_err ==
    /\ gui = "running"
    /\ gui' = "panicked"
    /\ trace_chan' = <<>>
    /\ UNCHANGED <<opts, pc, cmdq, dec, i, buf, got, pos, idle, loss, result,
                   current, nrecv, joined, npub, pubs, afterReset>>

\* main.rs:125: receiver.join().unwrap()?
join ==
    /\ gui = "exited" /\ ~ThreadAlive /\ joined = "none"
    /\ joined' = result
    /\ UNCHANGED <<opts, pc, cmdq, trace_chan, dec, i, buf, got, pos, idle, loss,
                   result, gui, current, nrecv, npub, pubs, afterReset>>

(***************************************************************************)
(* Specifications.                                                         *)
(***************************************************************************)
Next ==
    \/ Poll
    \/ GetFileOk
    \/ GetFileEof
    \/ GetFileErr
    \/ GetUdpOk
    \/ GetUdpTimeout
    \/ GetUdpErr
    \/ NetIdle
    \/ Decode
    \/ Publish
    \/ \E clicked \in BOOLEAN : update(clicked)
    \/ on_exit
    \/ run_native_err
    \/ join

Spec == Init /\ [][Next]_vars

\* Scheduling: the acquisition thread is never starved, its non-blocking
\* steps are taken, and a call of source.get that can return does return
\* (recv within the read timeout, read_exact and seek at once).  Nothing
\* is assumed of the GUI thread or of the network.
Fairness ==
    /\ WF_vars(Poll)
    /\ WF_vars(Decode)
    /\ WF_vars(Publish)
    /\ WF_vars(GetUdpOk \/ GetUdpTimeout)
    /\ WF_vars(GetFileOk \/ GetFileEof)

FairSpec == Spec /\ Fairness

\* Network mode alone (no --file), with the same scheduling.
NetInit == Init /\ ~opts.file

NetNext ==
    \/ Poll
    \/ GetUdpOk
    \/ GetUdpTimeout
    \/ GetUdpErr
    \/ NetIdle
    \/ Decode
    \/ Publish
    \/ \E clicked \in BOOLEAN : update(clicked)
    \/ on_exit
    \/ run_native_err
    \/ join

NetFairSpec == NetInit /\ [][NetNext]_vars /\ Fairness

\* File replay alone (--file), with the same scheduling.
FileInit == Init /\ opts.file

FileNext ==
    \/ Poll
    \/ GetFileOk
    \/ GetFileEof
    \/ GetFileErr
    \/ Decode
    \/ Publish
    \/ \E clicked \in BOOLEAN : update(clicked)
    \/ on_exit
    \/ run_native_err
    \/ join

FileFairSpec == FileInit /\ [][FileNext]_vars /\ Fairness

\* The end-to-end scenario of the design: file replay of a 3-frame fixture,
\* a controller that only polls for snapshots (no Reset, no exit), until
\* 404 frames have been fed.
ScenarioFrames == 404
FixtureFrames == 3

E2EInit ==
    /\ opts = [file |-> TRUE, len |-> FixtureFrames * FrameSize,
               frame_size |-> FrameSize,
               budget |-> ScenarioFrames \div (Threshold + 1)]
    /\ Start

E2ENext ==
    \/ Poll
    \/ GetFileOk
    \/ GetFileEof
    \/ Decode
    \/ Publish
    \/ update(FALSE)

E2ESpec == E2EInit /\ [][E2ENext]_vars

(***************************************************************************)
(* Properties.                                                             *)
(***************************************************************************)
\* the thread takes a step from pc = p (every thread action but the file
\* seek changes pc)
Leaves(p) == pc = p /\ pc' # p

\* C1: the result channel never holds more than one pending snapshot, and a
\* publication attempt that finds the slot occupied leaves the pending
\* snapshot in place, drops the new one and is not retried (the loop goes
\* back to its poll after one attempt).
C1_SingleSlotDropNew ==
    /\ [](Len(trace_chan) <= 1)
    /\ [][(Leaves("publish") /\ trace_chan # <<>>)
            => /\ trace_chan' = trace_chan
               /\ npub' = npub + 1
               /\ pc' = "poll"]_vars

\* C1 witness: the second attempt was made while the first snapshot was
\* still pending, and the first is what the slot holds.
C1_Witness ==
    /\ npub = 2
    /\ trace_chan # <<>>
    /\ trace_chan[1].idx = 1

\* C2: the consumer cannot stall the loop.  Whatever the slot holds, the
\* publication step can be taken (try_send returns), it leads back to the
\* command poll, and the command poll itself can always be taken.
C2_NeverStalled ==
    /\ [](pc = "publish" => ENABLED Publish)
    /\ [](pc = "poll" => ENABLED Poll)
    /\ [][Leaves("publish") => pc' = "poll"]_vars

\* C2 witness: the consumer never drained anything (current is None, the
\* first snapshot still fills the slot), the second attempt has been made
\* and the loop is reading the next frame.
C2_Witness ==
    /\ gui = "running"
    /\ current = <<>>
    /\ Len(trace_chan) = Capacity
    /\ npub = 2
    /\ pc = "read"

\* C3: a publication attempt is made exactly when the counter has come to
\* exceed the threshold, i.e. with the 101st frame since the counter was 0:
\* the thread is at its publication step iff i > 100, there i = 101, the
\* attempt resets i to 0 whether or not the snapshot was taken, and one
\* attempt is made per crossing; so i <= 100 whenever an iteration starts.
C3_PublishAtCrossing ==
    /\ []((pc = "publish") <=> (i > Threshold))
    /\ [](i <= Threshold + 1)
    /\ [](pc = "poll" => i <= Threshold)
    /\ [][npub' # npub
            => /\ pc = "publish" /\ i = Threshold + 1
               /\ npub' = npub + 1
               /\ i' = 0 /\ pc' = "poll"]_vars
    /\ [][Leaves("publish") => npub' = npub + 1 /\ i' = 0]_vars
    /\ [][(Leaves("decode") /\ i' > Threshold) => (i = Threshold /\ pc' = "publish")]_vars

\* C3 witness: two crossings of the same bank, the first snapshot taken by
\* the channel and the second dropped, and the counter back at 0 both times.
C3_Witness ==
    /\ pubs = 2
    /\ i = 0
    /\ pc = "poll"
    /\ trace_chan # <<>> /\ trace_chan[1].idx = 1
    /\ dec = [k \in 1..NumChannels |-> 2 * (Threshold + 1)]

\* C4: from the moment the loop has processed a Reset until the next
\* successfully decoded frame is fed, the bank is 4 fresh accumulators and
\* the counter is 0.
C4_ResetClearsBank ==
    afterReset => (dec = [k \in 1..NumChannels |-> NewCascade] /\ i = 0)

\* C4 witness: a Reset processed after the bank had seen a publication, and
\* the buffer read after it failed to decode (so nothing was fed yet).
C4_Witness ==
    /\ afterReset
    /\ npub = 1 /\ pubs = 0
    /\ pc = "poll" /\ got = "ok" /\ ~buf.ok

\* the command poll is about to return Exit / Disconnected
PollsExit == cmdq # <<>> /\ Head(cmdq) = "Exit"
PollsDisconnected == cmdq = <<>> /\ gui # "running"

\* C5: when the poll returns Exit or finds the channel disconnected, the
\* loop ends in that step: nothing is read, fed or published, and both
\* causes leave the thread in the same terminal state (loss statistics
\* reported, result Ok).
C5_ExitOrDisconnectEnds ==
    [][(Leaves("poll") /\ (PollsExit \/ PollsDisconnected))
         => /\ pc' = "done"
            /\ result' = "ok"
            /\ loss' = [loss EXCEPT !.analyzed = loss.analyzed + 1]
            /\ UNCHANGED <<dec, i, buf, got, pos, npub, pubs, trace_chan>>]_vars

\* C5 witness: the loop ended on a disconnected command channel (no Exit was
\* ever sent: the GUI failed without on_exit).
C5_Witness ==
    /\ pc = "done" /\ result = "ok"
    /\ gui = "panicked"
    /\ loss.analyzed = 1
    /\ npub = 1

\* C6: in network mode a read that ends by timeout does not end the loop:
\* the next iteration follows, bank and counter unchanged.
C6_TimeoutRecoverable ==
    [][(got = "none" /\ got' = "timeout")
         => (pc' = "poll" /\ dec' = dec /\ i' = i)]_vars

\* Exit is waiting in the command channel
ExitQueued == \E k \in 1..Len(cmdq) : cmdq[k] = "Exit"

\* C7: if Exit has been sent and the network is idle, the loop terminates,
\* and it does so without starting another read once a read has ended by
\* timeout (at most one read times out after the Exit).
C7_ExitWhileIdleTerminates ==
    /\ ((~opts.file /\ idle /\ ExitQueued) ~> (pc = "done"))
    /\ [][(~opts.file /\ ExitQueued /\ got = "timeout") => pc' # "read"]_vars

\* C7 witness: Exit was sent while the thread sat in recv on an idle
\* network; the read timed out and the thread is done.
C7_Witness ==
    /\ ~opts.file /\ idle
    /\ ExitQueued
    /\ got = "timeout"
    /\ pc = "done"

\* the replay file holds N >= 1 whole frames
WholeFrames ==
    /\ opts.file
    /\ opts.len >= opts.frame_size
    /\ opts.len % opts.frame_size = 0

NFrames == opts.len \div opts.frame_size

\* C8: with a file of N whole frames get never ends at end-of-input: the
\* cursor stays on a frame boundary, every fetch returns frame_size bytes,
\* the first fetch returns frame 0 and each later one the frame that
\* follows the previous fetch's frame cyclically (fetch j returns frame
\* (j-1) mod N), and the only error get can return is a genuine I/O error.
C8_FileWraps ==
    /\ [](WholeFrames => /\ pos % opts.frame_size = 0
                         /\ pos <= opts.len
                         /\ got \in {"none", "ok", "io"})
    /\ [][(WholeFrames /\ got = "none" /\ got' = "ok")
            => /\ buf'.len = opts.frame_size
               /\ buf'.id = IF buf.len = 0 THEN 0
                            ELSE (((buf.id \div opts.frame_size) + 1) % NFrames)
                                 * opts.frame_size]_vars
    /\ [][(WholeFrames /\ pc = "read" /\ pos' # pos /\ got' = "none")
            => /\ pos = opts.len /\ pos' = 0 /\ pc' = "read"
               /\ opts.len - pos' >= opts.frame_size]_vars

\* C8 witness: a 2-frame file read more than 100 times: the fetch that
\* has just returned brought frame 0 again.
C8_Witness ==
    /\ WholeFrames /\ NFrames = 2
    /\ npub >= 1
    /\ got = "ok" /\ buf.id = 0 /\ buf.len = opts.frame_size
    /\ pos = opts.frame_size

\* C9: a buffer that fails to decode does not end the loop, does not
\* advance the counter, feeds no accumulator and leaves the loss tracker
\* alone; so a bank that was fed 101 frames has seen exactly one
\* publication attempt, however many corrupt buffers came in between.
C9_DecodeFailureSkipped ==
    /\ [][(Leaves("decode") /\ ~buf.ok)
            => /\ pc' = "poll"
               /\ UNCHANGED <<i, dec, loss, npub, pubs, result, trace_chan>>]_vars
    /\ []((pc # "publish" /\ dec # <<>> /\ dec[1] = Threshold + 1) => pubs = 1)

\* C9 witness: the very first buffer was corrupt: it has been processed,
\* the bank is still fresh and the next iteration is about to start.
C9_Witness ==
    /\ pc = "poll"
    /\ got = "ok" /\ ~buf.ok
    /\ dec = [k \in 1..NumChannels |-> 0] /\ i = 0
    /\ npub = 0 /\ ~afterReset
    /\ loss.last = <<>>

\* C10: a read error other than a timeout ends the loop in the step in
\* which it occurs: nothing is fed, nothing is published, the error is the
\* thread's result, and it is what join hands to main.
C10_ReadErrorFatal ==
    /\ [][(got = "none" /\ got' = "io")
            => /\ pc' = "done"
               /\ result' = "io"
               /\ UNCHANGED <<dec, i, loss, npub, pubs, trace_chan>>]_vars
    /\ [](result = "io" => pc = "done")
    /\ [](joined # "none" => joined = result)

\* C10 witness: main joined the thread and got the I/O error.
C10_Witness ==
    /\ joined = "io"
    /\ result = "io"
    /\ loss.analyzed = 0

\* C11: whenever the acquisition thread has terminated, whatever ended the
\* loop, the loss statistics have been reported exactly once.
C11_LossReportedOnEveryExit ==
    pc = "done" => loss.analyzed = 1

\* C12 (as stated): the channel is overwrite-on-full: a publication attempt
\* that finds the slot occupied puts the new snapshot in its place, and what
\* the consumer receives is always the most recently built snapshot.
C12_OverwriteOnFull ==
    /\ [][(Leaves("publish") /\ trace_chan # <<>> /\ gui = "running")
            => trace_chan' = <<Snapshot(dec, npub + 1)>>]_vars
    /\ [][nrecv' # nrecv => current'[1].idx = npub]_vars

\* C12 (amended): the channel is drop-on-full, first-pending-wins: from any
\* step to the next a pending snapshot is never replaced by another one,
\* a snapshot enters only an empty slot, and what the consumer receives is
\* the pending snapshot, which may be older than the latest one built.
C12_DropOnFull ==
    /\ [][(trace_chan # <<>> /\ trace_chan' # <<>>) => trace_chan' = trace_chan]_vars
    /\ [][(trace_chan = <<>> /\ trace_chan' # <<>>)
            => (pc = "publish" /\ trace_chan' = <<Snapshot(dec, npub + 1)>>)]_vars
    /\ [][nrecv' # nrecv
            => (current' = <<Head(trace_chan)>> /\ current'[1].idx <= npub)]_vars

\* C12 witness: two snapshots were built, the second found the slot
\* occupied and was dropped, and the consumer then received the first.
C12_Witness ==
    /\ gui = "running"
    /\ npub = 2
    /\ trace_chan = <<>>
    /\ current # <<>> /\ current[1].idx = 1

\* every accumulator of the (instantiated) bank has been fed n frames
FedAll(n) == dec = [k \in 1..NumChannels |-> n]

\* the snapshots the controller holds or is about to get have 4 traces
FourTraces ==
    /\ \A k \in 1..Len(trace_chan) : Len(trace_chan[k].traces) = NumChannels
    /\ \A k \in 1..Len(current) : Len(current[k].traces) = NumChannels

\* C13 (as stated): in the scenario, once 404 frames have been fed (and the
\* iteration is over and the controller has taken what was pending), the
\* controller has received exactly 4 snapshots of 4 traces each.
C13_ExactlyFourReceived ==
    (FedAll(ScenarioFrames) /\ pc = "poll" /\ trace_chan = <<>>)
        => (nrecv = 4 /\ FourTraces)

\* C13 (amended): in the scenario a publication attempt is made at frames
\* 101, 202, 303 and 404 and at no other; once 404 frames have been fed,
\* exactly 4 attempts have been made, and the controller has received
\* between 0 and 4 snapshots (the first is received or still pending), each
\* with 4 traces: a snapshot built while the previous one was pending is
\* lost.
C13_FourAttemptsAtMostFourReceived ==
    /\ pc = "publish" => FedAll((Threshold + 1) * (npub + 1))
    /\ nrecv <= npub
    /\ FourTraces
    /\ (FedAll(ScenarioFrames) /\ pc # "publish")
          => (npub = 4 /\ nrecv <= 4 /\ nrecv + Len(trace_chan) >= 1)

\* C13 witness: 404 frames fed, the controller polled between the attempts
\* and got all 4 snapshots.
C13_Witness ==
    /\ FedAll(ScenarioFrames)
    /\ nrecv = 4
    /\ current # <<>> /\ current[1].idx = 4
    /\ Len(current[1].traces) = NumChannels

\* all snapshots in flight or held by the GUI
Snapshots ==
    {trace_chan[k] : k \in 1..Len(trace_chan)} \cup {current[k] : k \in 1..Len(current)}

\* C14: every snapshot that reaches the channel or the consumer holds one
\* trace per accumulator, 4 in all, each the trace of the accumulator of the
\* same index as it was when the snapshot was built; and whenever a frame
\* is about to be fed or a snapshot about to be built the bank holds its 4
\* accumulators.
C14_SnapshotsComplete ==
    /\ [](\A m \in Snapshots :
             /\ Len(m.traces) = NumChannels
             /\ \A k \in 1..NumChannels : m.traces[k] = m.traces[1])
    /\ [](pc \in {"read", "decode", "publish"} => Len(dec) = NumChannels)
    /\ [][(Leaves("publish") /\ trace_chan' # trace_chan)
            => /\ Len(trace_chan'[1].traces) = Len(dec)
               /\ \A k \in 1..Len(dec) :
                     trace_chan'[1].traces[k] = [frames |-> dec[k]]]_vars
    /\ [][nrecv' # nrecv => current' = <<Head(trace_chan)>>]_vars

\* C14 witness: the consumer holds a snapshot built right after a Reset's
\* bank had taken its 101 frames.
C14_Witness ==
    /\ current # <<>>
    /\ current[1].idx = 2
    /\ Len(current[1].traces) = NumChannels
    /\ current[1].traces[NumChannels] = [frames |-> Threshold + 1]

\* C15: in file mode a fetch always returns, whatever the length of the
\* file (empty and shorter than a frame included), so an Exit that has been
\* sent is eventually observed and the loop ends.
C15_FileFetchReturns ==
    /\ ((opts.file /\ pc = "read") ~> (pc # "read"))
    /\ ((opts.file /\ ExitQueued) ~> (pc = "done"))

\* C16: the accumulators of the bank have all been fed the same number of
\* frames; the bank is empty or whole, it is re-instantiated whole, and a
\* decoded frame is fed to every accumulator.
C16_BankFedUniformly ==
    /\ [](/\ Len(dec) \in {0, NumChannels}
          /\ \A k \in 1..Len(dec) : dec[k] = dec[1])
    /\ [][(dec' # dec /\ pc = "poll") => dec' = [k \in 1..NumChannels |-> 0]]_vars
    /\ [][(Leaves("decode") /\ FromBytes(buf) # <<>>)
            => dec' = [k \in 1..NumChannels |-> dec[k] + 1]]_vars
    /\ [][dec' # dec => pc \in {"poll", "decode"}]_vars

\* C16 witness: after a Reset the whole bank has been fed the same frames,
\* fewer than a publication's worth.
C16_Witness ==
    /\ npub >= 1 /\ pubs = 0
    /\ dec = [k \in 1..NumChannels |-> 2]
    /\ i = 2

\* the publication index of the snapshot the consumer holds, 0 for none
Observed(c) == IF c = <<>> THEN 0 ELSE c[1].idx

\* C17: the consumer receives snapshots in publication order and none of
\* them twice: each snapshot it receives has a publication index above
\* that of the one before, and the channel holds them in that order.
C17_ReceivedInOrder ==
    /\ [][nrecv' # nrecv
            => /\ current' = <<Head(trace_chan)>>
               /\ Observed(current') > Observed(current)]_vars
    /\ [][Observed(current') >= Observed(current)]_vars
    /\ [](\A k \in 1..Len(trace_chan) :
             /\ trace_chan[k].idx > Observed(current)
             /\ trace_chan[k].idx <= npub
             /\ \A j \in 1..(k - 1) : trace_chan[j].idx < trace_chan[k].idx)

\* C17 witness: the consumer has received a second snapshot, the second
\* published.
C17_Witness ==
    /\ nrecv = 2
    /\ current # <<>> /\ current[1].idx = 2
    /\ npub = 2

\* C18: commands leave the channel one per iteration, from the head and
\* only at the top of the loop; a Reset at the head makes the iteration
\* re-instantiate the bank and go on to its read, so an Exit behind it is
\* not observed by that iteration; and an iteration that goes on comes
\* back to the top only through one read.
C18_OneCommandPerIteration ==
    /\ [][Len(cmdq') < Len(cmdq) => (pc = "poll" /\ pc' # "poll" /\ cmdq' = Tail(cmdq))]_vars
    /\ [][(Leaves("poll") /\ cmdq # <<>> /\ Head(cmdq) = "Reset")
            => /\ pc' = "read"
               /\ cmdq' = Tail(cmdq)
               /\ dec' = FreshBank /\ i' = 0]_vars
    /\ [][(Leaves("poll") /\ pc' = "done" /\ ExitQueued) => Head(cmdq) = "Exit"]_vars
    /\ [][Leaves("poll") => pc' \in {"read", "done"}]_vars
    /\ [][Leaves("read") => (pc' \in {"decode", "done"} /\ got' # "none")]_vars
    /\ [][(pc' = "poll" /\ pc # "poll") => (pc \in {"decode", "publish"} /\ got = "ok")]_vars
    /\ [][Leaves("decode") => pc' \in {"poll", "publish"}]_vars

\* C18 witness: a Reset sent after a publication was taken by one
\* iteration, which did its read, and the Exit behind it by the next.
C18_Witness ==
    /\ pc = "done" /\ result = "ok"
    /\ gui = "exited" /\ cmdq = <<>>
    /\ npub >= 1 /\ afterReset
    /\ dec = FreshBank /\ got = "ok"

\* C19: a publication attempt sets the counter to 0 and leaves the bank as
\* it is; the bank changes only by a frame fed or by a (re)instantiation,
\* so each accumulator has been fed 101 frames for every publication
\* attempt since the bank was instantiated, plus the counter.
C19_PublishKeepsBank ==
    /\ [][Leaves("publish") => (dec' = dec /\ i' = 0 /\ pubs' = pubs + 1)]_vars
    /\ [](\A k \in 1..Len(dec) : dec[k] = (Threshold + 1) * pubs + i)
    /\ [][(dec' # dec /\ dec # <<>>)
            => \/ pc = "decode"
               \/ pc = "poll" /\ cmdq # <<>> /\ Head(cmdq) = "Reset"]_vars

\* C19 witness: after a publication the counter has started again and the
\* bank has not.
C19_Witness ==
    /\ pubs = 1
    /\ i = 1
    /\ dec = [k \in 1..NumChannels |-> Threshold + 2]

\* publications made before the bank was last (re)instantiated
BeforeReset == npub - pubs

\* C20: a snapshot built since the last Reset was processed counts only
\* the frames fed since then, 101 for each publication since; of the
\* snapshots built before it at most one is still to be received, the one
\* pending in the slot.
C20_PostResetSnapshotsFresh ==
    /\ [](\A m \in Snapshots :
             m.idx > BeforeReset
               => \A k \in 1..Len(m.traces) :
                     m.traces[k] = [frames |-> (Threshold + 1) * (m.idx - BeforeReset)])
    /\ [](Cardinality({k \in 1..Len(trace_chan) : trace_chan[k].idx <= BeforeReset}) <= 1)
    /\ [][(nrecv' # nrecv /\ Observed(current') <= BeforeReset)
            => \A k \in 1..Len(trace_chan') : trace_chan'[k].idx > BeforeReset]_vars

\* C20 witness: the consumer holds the snapshot built before the Reset and
\* the slot the one built from the 101 frames read after it.
C20_Witness ==
    /\ npub = 2 /\ pubs = 1
    /\ current # <<>> /\ current[1].idx = 1
    /\ trace_chan # <<>> /\ trace_chan[1].idx = 2
    /\ trace_chan[1].traces[1] = [frames |-> Threshold + 1]

=============================================================================
